---- MODULE Spec2Model ----
(***************************************************************************)
(* A model of src/src/core/vdom.js: the virtual-node constructor, the      *)
(* mount and re-render operations, the diff-and-update operation and the   *)
(* attribute diff, running against a heap of live DOM nodes.               *)
(*                                                                         *)
(* JavaScript values are tagged records: a string is [kind |-> "string"],  *)
(* an object literal is [kind |-> "object"], null and undefined are their  *)
(* own kinds.  A live node is an index into the sequence dom; node 1 is    *)
(* the container the caller supplies.  A call that throws leaves the heap  *)
(* as it was at the throw and records the error's name.                    *)
(***************************************************************************)
EXTENDS Integers, Sequences, FiniteSets, TLC

VARIABLES dom, vNode, updatedVNode, args, calls, pre, log

vars == <<dom, vNode, updatedVNode, args, calls, pre, log>>

(* ------------------------------ bounds --------------------------------- *)

\* The largest number of nodes of a virtual tree handed to the operations.
MaxNodes == 3

\* The largest number of successive calls on one container.
MaxCalls == 3

TagNames == {"div", "span"}

TextValues == {"a", "b"}

(* --------------------------- JavaScript values -------------------------- *)

Null == [kind |-> "null"]

Undefined == [kind |-> "undefined"]

JSString(s) == [kind |-> "string", value |-> s]

\* An object literal { name: "value", ... }: its own enumerable properties.
ObjectLiteral(own) == [kind |-> "object", own |-> own]

EmptyOwn == [n \in {} |-> ""]

\* The property names every object literal inherits from Object.prototype.
ObjectPrototypeNames ==
    {"constructor", "toString", "toLocaleString", "valueOf",
     "hasOwnProperty", "isPrototypeOf", "propertyIsEnumerable"}

\* A faulty createVDomNode: an absent props defaults to {}.
createVDomNodeDefaulting(type, props, children) ==
    [kind |-> "object", type |-> type,
     props |-> IF props = Undefined THEN ObjectLiteral(EmptyOwn) ELSE props,
     children |-> children]

\* function createVDomNode(type, props, children) { return { type, props, children }; }
createVDomNode(type, props, children) ==
    [kind |-> "object", type |-> type, props |-> props, children |-> children]

\* typeof vNode === "string" || vNode instanceof String
isTextNode(v) == v.kind = "string"

\* String(v), as document.createTextNode converts its argument.
StringOf(v) ==
    CASE v.kind = "string" -> v.value
      [] v.kind = "null" -> "null"
      [] v.kind = "undefined" -> "undefined"
      [] OTHER -> "[object Object]"

\* a !== b.  Strings compare by value; two object values compare by identity,
\* and the trees handed to one call are built by separate constructor calls.
StrictNotEquals(a, b) ==
    IF a.kind = "string" /\ b.kind = "string" THEN a.value # b.value
    ELSE IF a.kind = "object" \/ b.kind = "object" THEN TRUE
    ELSE a.kind # b.kind

\* name in obj, for an object literal: own or inherited.
HasProperty(name, obj) ==
    name \in DOMAIN obj.own \/ name \in ObjectPrototypeNames

\* obj[name], for an object literal.
GetProperty(obj, name) ==
    IF name \in DOMAIN obj.own THEN JSString(obj.own[name])
    ELSE IF name \in ObjectPrototypeNames THEN [kind |-> "function"]
    ELSE Undefined

\* The own keys of an object literal, in one fixed order.
RECURSIVE KeysOf(_)
KeysOf(S) ==
    IF S = {} THEN <<>>
    ELSE LET k == CHOOSE x \in S : TRUE IN <<k>> \o KeysOf(S \ {k})

ObjectKeys(obj) == KeysOf(DOMAIN obj.own)

(* --------------------------- the live DOM ------------------------------- *)

\* The value of a missing node reference (null or undefined).
NoNode == 0

container == 1

ElementNode(tag) ==
    [nodeType |-> "element", tagName |-> tag, data |-> "",
     attributes |-> EmptyOwn, childNodes |-> <<>>]

TextNode(data) ==
    [nodeType |-> "text", tagName |-> "", data |-> data,
     attributes |-> EmptyOwn, childNodes |-> <<>>]

\* The machine a call runs on: the heap, the DOM mutations made so far and
\* the error thrown, if any.
Machine(d) == [dom |-> d, log |-> <<>>, threw |-> "none"]

Throw(m, error) == [m EXCEPT !.threw = error]

Entry(op, node, name, value) ==
    [op |-> op, node |-> node, name |-> name, value |-> value]

\* document.createTextNode(data); the new node is Len(m.dom) + 1.
createTextNode(data, m) == [m EXCEPT !.dom = Append(@, TextNode(data))]

\* document.createElement(tag); the new node is Len(m.dom) + 1.
createElement(tag, m) == [m EXCEPT !.dom = Append(@, ElementNode(tag))]

\* element.setAttribute(name, value)
setAttribute(el, name, value, m) ==
    IF el = NoNode THEN Throw(m, "TypeError")
    ELSE [m EXCEPT
            !.dom[el].attributes =
                [n \in DOMAIN @ \cup {name} |-> IF n = name THEN value ELSE @[n]],
            !.log = Append(@, Entry("setAttribute", el, name, value))]

\* element.removeAttribute(name)
removeAttribute(el, name, m) ==
    IF el = NoNode THEN Throw(m, "TypeError")
    ELSE [m EXCEPT
            !.dom[el].attributes = [n \in DOMAIN @ \ {name} |-> @[n]],
            !.log = Append(@, Entry("removeAttribute", el, name, ""))]

\* A faulty appendChild: the child is inserted first.
prependChild(parent, child, m) ==
    [m EXCEPT !.dom[parent].childNodes = <<child>> \o @,
              !.log = Append(@, Entry("appendChild", parent, "", ""))]

\* parent.appendChild(child), for a child that has no parent yet.
appendChild(parent, child, m) ==
    [m EXCEPT !.dom[parent].childNodes = Append(@, child),
              !.log = Append(@, Entry("appendChild", parent, "", ""))]

\* parent.firstChild
firstChild(parent, m) ==
    IF m.dom[parent].childNodes = <<>> THEN NoNode
    ELSE Head(m.dom[parent].childNodes)

\* parent.removeChild(child)
removeChild(parent, child, m) ==
    [m EXCEPT !.dom[parent].childNodes =
                  SelectSeq(@, LAMBDA c : c # child),
              !.log = Append(@, Entry("removeChild", parent, "", ""))]

\* A faulty replaceChild: the new child is appended, the old one kept.
replaceChildKeeping(parent, newChild, oldChild, m) ==
    IF newChild = NoNode \/ oldChild = NoNode THEN Throw(m, "TypeError")
    ELSE [m EXCEPT !.dom[parent].childNodes = Append(@, newChild),
                   !.log = Append(@, Entry("replaceChild", parent, "", ""))]

\* parent.replaceChild(newChild, oldChild): a TypeError when either argument
\* is no Node, a NotFoundError when oldChild is no child of parent.
replaceChild(parent, newChild, oldChild, m) ==
    IF newChild = NoNode \/ oldChild = NoNode THEN Throw(m, "TypeError")
    ELSE IF \A i \in DOMAIN m.dom[parent].childNodes :
                m.dom[parent].childNodes[i] # oldChild
    THEN Throw(m, "NotFoundError")
    ELSE [m EXCEPT !.dom[parent].childNodes =
                       [i \in DOMAIN @ |-> IF @[i] = oldChild THEN newChild ELSE @[i]],
                   !.log = Append(@, Entry("replaceChild", parent, "", ""))]

\* A faulty clearInnerHTML: only the first child is removed.
clearFirstChild(parent, m) ==
    [m EXCEPT !.dom[parent].childNodes = IF @ = <<>> THEN @ ELSE Tail(@),
              !.log = Append(@, Entry("innerHTML", parent, "", ""))]

\* parent.innerHTML = ""
clearInnerHTML(parent, m) ==
    [m EXCEPT !.dom[parent].childNodes = <<>>,
              !.log = Append(@, Entry("innerHTML", parent, "", ""))]

(* ------------------------- updateDomAttributes -------------------------- *)

\* Object.keys(oldProps).forEach(propName => { if (!(propName in newProps))
\*   domElement.removeAttribute(propName) }), from key i on.
RECURSIVE removeStaleAttributes(_, _, _, _, _)
removeStaleAttributes(domElement, keys, i, newProps, m) ==
    IF m.threw # "none" \/ i > Len(keys) THEN m
    ELSE IF newProps.kind # "object" THEN Throw(m, "TypeError")
    ELSE removeStaleAttributes(domElement, keys, i + 1, newProps,
            IF ~HasProperty(keys[i], newProps)
            THEN removeAttribute(domElement, keys[i], m)
            ELSE m)

\* Object.entries(newProps).forEach(([propName, propValue]) => {
\*   if (oldProps[propName] !== propValue) domElement.setAttribute(...) }),
\* from entry i on.
RECURSIVE setChangedAttributes(_, _, _, _, _, _)
setChangedAttributes(domElement, keys, i, oldProps, newProps, m) ==
    IF m.threw # "none" \/ i > Len(keys) THEN m
    ELSE setChangedAttributes(domElement, keys, i + 1, oldProps, newProps,
            IF StrictNotEquals(GetProperty(oldProps, keys[i]),
                               JSString(newProps.own[keys[i]]))
            THEN setAttribute(domElement, keys[i], newProps.own[keys[i]], m)
            ELSE m)

\* function updateDomAttributes(domElement, oldProps, newProps).
\* Object.keys and Object.entries throw a TypeError on undefined or null.
updateDomAttributes(domElement, oldProps, newProps, m) ==
    IF m.threw # "none" THEN m
    ELSE IF oldProps.kind # "object" THEN Throw(m, "TypeError")
    ELSE LET m1 == removeStaleAttributes(domElement, ObjectKeys(oldProps), 1,
                                         newProps, m)
         IN  IF m1.threw # "none" THEN m1
             ELSE IF newProps.kind # "object" THEN Throw(m1, "TypeError")
             ELSE setChangedAttributes(domElement, ObjectKeys(newProps), 1,
                                       oldProps, newProps, m1)

(* --------------------------- renderVDomToDom ---------------------------- *)

\* A faulty appendToContainer: the new node replaces the child list.
appendReplacing(parent, domElement, m) ==
    IF m.threw # "none" \/ parent = NoNode THEN m
    ELSE [m EXCEPT !.dom[parent].childNodes = <<domElement>>,
                   !.log = Append(@, Entry("appendChild", parent, "", ""))]

\* container && container.appendChild(domElement)
appendToContainer(parent, domElement, m) ==
    IF m.threw # "none" \/ parent = NoNode THEN m
    ELSE appendChild(parent, domElement, m)

\* function renderVDomToDom(vNode, container); it returns nothing.
\* renderChildren is vNode.children.forEach(child => renderVDomToDom(child,
\* domElement)), from child i on.
RECURSIVE renderVDomToDom(_, _, _)
RECURSIVE renderChildren(_, _, _, _)
renderVDomToDom(v, parent, m) ==
    IF m.threw # "none" THEN m
    ELSE IF isTextNode(v)
    THEN appendToContainer(parent, Len(m.dom) + 1, createTextNode(StringOf(v), m))
    ELSE IF v.kind # "object" THEN Throw(m, "TypeError")
    ELSE LET domElement == Len(m.dom) + 1
             m1 == createElement(v.type, m)
             m2 == updateDomAttributes(domElement, ObjectLiteral(EmptyOwn),
                                       v.props, m1)
             m3 == renderChildren(v.children, 1, domElement, m2)
         IN  appendToContainer(parent, domElement, m3)

renderChildren(children, i, domElement, m) ==
    IF m.threw # "none" \/ i > Len(children) THEN m
    ELSE renderChildren(children, i + 1, domElement,
                        renderVDomToDom(children[i], domElement, m))

(* --------------------------- reRenderElement ---------------------------- *)

\* A faulty removeAllChildren: the loop body runs once at most.
removeOneChild(parent, m) ==
    IF parent = NoNode \/ firstChild(parent, m) = NoNode THEN m
    ELSE removeChild(parent, firstChild(parent, m), m)

\* while (parentDomElement && parentDomElement.firstChild)
\*   parentDomElement.removeChild(parentDomElement.firstChild);
RECURSIVE removeAllChildren(_, _)
removeAllChildren(parent, m) ==
    IF parent = NoNode \/ firstChild(parent, m) = NoNode THEN m
    ELSE removeAllChildren(parent, removeChild(parent, firstChild(parent, m), m))

\* A faulty reRenderElement: the children are not removed first.
reRenderElementKeeping(v, parentDomElement, m) ==
    renderVDomToDom(v, parentDomElement, m)

\* function reRenderElement(vNode, parentDomElement)
reRenderElement(v, parentDomElement, m) ==
    renderVDomToDom(v, parentDomElement, removeAllChildren(parentDomElement, m))

(* ---------------------------- diffAndUpdate ----------------------------- *)

\* function getDomElementFromVNode(vNode, parentDomElement)
getDomElementFromVNode(v, parentDomElement, m) == firstChild(parentDomElement, m)

\* function diffAndUpdate(previousVNode, currentVNode, parentDomElement).
\* Case 2 calls renderVDomToDom(currentVNode) with no container: the subtree
\* is built detached and the call's value, undefined, is what replaceChild
\* receives.  Case 3 calls updateAttributes, a name the module never binds:
\* a ReferenceError, before the children are looked at.
diffAndUpdate(previousVNode, currentVNode, parentDomElement, m) ==
    IF currentVNode.kind = "null" THEN clearInnerHTML(parentDomElement, m)
    ELSE IF isTextNode(previousVNode) \/ isTextNode(currentVNode)
    THEN IF StrictNotEquals(previousVNode, currentVNode)
         THEN LET newDomElement == Len(m.dom) + 1
              IN  replaceChild(parentDomElement, newDomElement,
                               firstChild(parentDomElement, m),
                               createTextNode(StringOf(currentVNode), m))
         ELSE m
    ELSE IF previousVNode.kind # "object" \/ currentVNode.kind # "object"
    THEN Throw(m, "TypeError")
    ELSE IF previousVNode.type # currentVNode.type
    THEN LET m1 == renderVDomToDom(currentVNode, NoNode, m)
             newDomElement == NoNode
         IN  IF m1.threw # "none" THEN m1
             ELSE replaceChild(parentDomElement, newDomElement,
                               firstChild(parentDomElement, m1), m1)
    ELSE LET domElement == getDomElementFromVNode(previousVNode, parentDomElement, m)
         IN  Throw(m, "ReferenceError")

(* ------------------------- the trees of the model ----------------------- *)

\* The props a caller passes: {} and { id: "app" }.
PropsValues ==
    {ObjectLiteral(EmptyOwn), ObjectLiteral([n \in {"id"} |-> "app"])}

\* The virtual trees of exactly n nodes, and the child lists of n nodes in all.
RECURSIVE TreesOfSize(_)
RECURSIVE ForestsOfSize(_)
TreesOfSize(n) ==
    (IF n = 1 THEN {JSString(s) : s \in TextValues} ELSE {})
    \cup {createVDomNode(t, p, cs) :
             t \in TagNames, p \in PropsValues, cs \in ForestsOfSize(n - 1)}

ForestsOfSize(k) ==
    IF k = 0 THEN {<<>>}
    ELSE UNION {{<<t>> \o f : t \in TreesOfSize(j), f \in ForestsOfSize(k - j)} :
                  j \in 1..k}

VNodes == UNION {TreesOfSize(n) : n \in 1..MaxNodes}

Forests == UNION {ForestsOfSize(k) : k \in 0..(MaxNodes - 1)}

\* The number of nodes of a virtual tree.
RECURSIVE Size(_)
RECURSIVE SizeOfAll(_, _)
Size(v) ==
    IF v.kind = "string" THEN 1
    ELSE IF v.kind = "object" THEN 1 + SizeOfAll(v.children, 1)
    ELSE 0

SizeOfAll(children, i) ==
    IF i > Len(children) THEN 0
    ELSE Size(children[i]) + SizeOfAll(children, i + 1)

(* ------------------------- reading the live tree ------------------------ *)

\* The live subtree at node id of heap d, as the virtual tree it displays.
RECURSIVE LiveTree(_, _)
LiveTree(d, id) ==
    IF d[id].nodeType = "text" THEN JSString(d[id].data)
    ELSE [kind |-> "object", type |-> d[id].tagName,
          props |-> ObjectLiteral(d[id].attributes),
          children |-> IF d[id].childNodes = <<>> THEN <<>>
                       ELSE [i \in DOMAIN d[id].childNodes |->
                                LiveTree(d, d[id].childNodes[i])]]

\* The live trees under the container, in order.
Content(d) == LiveTree(d, container).children

\* The nodes of the live subtree at node id, and how many places it has.
RECURSIVE Descendants(_, _)
Descendants(d, id) ==
    {id} \cup UNION {Descendants(d, d[id].childNodes[i]) :
                       i \in DOMAIN d[id].childNodes}

RECURSIVE Places(_, _)
RECURSIVE PlacesOfAll(_, _, _)
Places(d, id) == 1 + PlacesOfAll(d, d[id].childNodes, 1)

PlacesOfAll(d, children, i) ==
    IF i > Len(children) THEN 0
    ELSE Places(d, children[i]) + PlacesOfAll(d, children, i + 1)

(* ------------------------------ the calls ------------------------------- *)

\* The record of a call: its arguments, how many children the container
\* had when it began, and the error it threw ("none" when it returned).
Call(fn, previous, current, before, threw) ==
    [fn |-> fn, previousVNode |-> previous, vNode |-> current,
     childrenBefore |-> before, threw |-> threw]

LastCall == calls[Len(calls)]

\* An error no caller catches ends the script: no call follows a throw.
Running ==
    /\ Len(calls) < MaxCalls
    /\ calls # <<>> => LastCall.threw = "none"

\* The state a finished call leaves: the heap, the DOM mutations it made,
\* the heap it started from, and its record.
Finish(m, fn, previous, current) ==
    /\ dom' = m.dom
    /\ log' = m.log
    /\ pre' = dom
    /\ calls' = Append(calls, Call(fn, previous, current,
                                   Len(dom[container].childNodes), m.threw))

\* const vNode = createVDomNode(type, props, children), props possibly absent.
CreateVDomNode ==
    /\ vNode = Undefined /\ calls = <<>>
    /\ \E type \in TagNames, props \in PropsValues \cup {Undefined},
          children \in Forests :
          /\ vNode' = createVDomNode(type, props, children)
          /\ args' = <<type, props, children>>
    /\ UNCHANGED <<dom, updatedVNode, calls, pre, log>>

\* const vNode = "text": a plain string is a virtual node too.
TextVNode ==
    /\ vNode = Undefined /\ calls = <<>>
    /\ \E s \in TextValues : vNode' = JSString(s)
    /\ UNCHANGED <<dom, updatedVNode, args, calls, pre, log>>

\* renderVDomToDom(vNode, container)
RenderVDomToDom ==
    /\ vNode # Undefined /\ Running
    /\ Finish(renderVDomToDom(vNode, container, Machine(dom)),
              "renderVDomToDom", Undefined, vNode)
    /\ UNCHANGED <<vNode, updatedVNode, args>>

\* renderVDomToDom("a", container): the mount that fills the container when
\* the previous tree handed to the diff is absent and has no mount of its own.
RenderText ==
    /\ vNode \in {Null, Undefined} /\ Running
    /\ Finish(renderVDomToDom(JSString("a"), container, Machine(dom)),
              "renderVDomToDom", Undefined, JSString("a"))
    /\ UNCHANGED <<vNode, updatedVNode, args>>

\* reRenderElement(vNode, container), and reRenderElement(null, container)
ReRenderElement ==
    /\ vNode # Undefined /\ Running
    /\ \E v \in {vNode, Null} :
          Finish(reRenderElement(v, container, Machine(dom)),
                 "reRenderElement", Undefined, v)
    /\ UNCHANGED <<vNode, updatedVNode, args>>

\* diffAndUpdate(vNode, updatedVNode, container)
DiffAndUpdate ==
    /\ Running
    /\ Finish(diffAndUpdate(vNode, updatedVNode, container, Machine(dom)),
              "diffAndUpdate", vNode, updatedVNode)
    /\ UNCHANGED <<vNode, updatedVNode, args>>

\* updateDomAttributes(container.firstChild, vNode.props, updatedVNode.props)
UpdateDomAttributes ==
    /\ Running
    /\ Finish(updateDomAttributes(firstChild(container, Machine(dom)),
                                  vNode.props, updatedVNode.props, Machine(dom)),
              "updateDomAttributes", vNode, updatedVNode)
    /\ UNCHANGED <<vNode, updatedVNode, args>>

\* The container is an empty element of the page.
EmptyPage ==
    /\ dom = <<ElementNode("div")>>
    /\ pre = <<ElementNode("div")>>
    /\ calls = <<>>
    /\ log = <<>>
    /\ args = <<>>

(* ---- mount and re-render of one tree: the usage example's calls ---- *)

Init ==
    /\ EmptyPage
    /\ vNode = Undefined
    /\ updatedVNode = Undefined

Next == CreateVDomNode \/ TextVNode \/ RenderVDomToDom \/ ReRenderElement

Spec == Init /\ [][Next]_vars

(* ---- diff-and-update of a previous tree against a current one ---- *)

\* The previous trees of n nodes (none: null or undefined) and the current
\* trees of n nodes (none: null).
PreviousOfSize(n) == IF n = 0 THEN {Null, Undefined} ELSE TreesOfSize(n)

CurrentOfSize(n) == IF n = 0 THEN {Null} ELSE TreesOfSize(n)

\* The pairs <<previous, current>> of MaxNodes + 1 nodes in all, at most.
DiffPairs ==
    UNION {UNION {PreviousOfSize(n) \X CurrentOfSize(k) :
                    k \in 0..(IF n = 0 THEN MaxNodes ELSE MaxNodes + 1 - n)} :
             n \in 0..MaxNodes}

InitDiff ==
    /\ EmptyPage
    /\ \E pair \in DiffPairs :
          /\ vNode = pair[1]
          /\ updatedVNode = pair[2]

NextDiff == RenderVDomToDom \/ RenderText \/ DiffAndUpdate

SpecDiff == InitDiff /\ [][NextDiff]_vars

(* ---- the attribute diff on a mounted element ---- *)

AttrNames == {"id", "class", "constructor"}

AttrValues == {"1", "2"}

AttrObjects ==
    {ObjectLiteral(own) :
       own \in UNION {[S -> AttrValues] : S \in SUBSET AttrNames}}

InitAttrs ==
    /\ EmptyPage
    /\ \E oldProps \in AttrObjects, newProps \in AttrObjects :
          /\ vNode = createVDomNode("div", oldProps, <<>>)
          /\ updatedVNode = createVDomNode("div", newProps, <<>>)

NextAttrs == RenderVDomToDom \/ UpdateDomAttributes

SpecAttrs == InitAttrs /\ [][NextAttrs]_vars

(* ------------------------------ the claims ------------------------------ *)

\* The last call of the history is a call of fn.
LastIs(fn) == calls # <<>> /\ LastCall.fn = fn

\* The last call returned: it threw nothing.
Returned == LastCall.threw = "none"

\* Before the last call the container held one child, the live tree of v.
MountedBefore(v) == Content(pre) = <<v>>

\* Every node the heap held before the last call, the container aside, is as
\* it was.
OthersUntouched ==
    \A id \in DOMAIN pre : id # container => dom[id] = pre[id]

\* C1: mounting a virtual tree of N nodes into an empty container returns and
\* leaves under the container exactly N live nodes, each in one place, that
\* display the tree: same tags, same attribute sets, same text values, the
\* children in the order of the virtual children.
MountBuildsTheTree ==
    (/\ LastIs("renderVDomToDom")
     /\ LastCall.vNode \in VNodes
     /\ pre[container].childNodes = <<>>)
    => /\ Returned
       /\ Content(dom) = <<LastCall.vNode>>
       /\ Places(dom, container) = Size(LastCall.vNode) + 1
       /\ Cardinality(Descendants(dom, container)) = Size(LastCall.vNode) + 1

\* A tree with attributes and two different children was mounted into the
\* empty container.
MountBuildsTheTreeWitness ==
    /\ LastIs("renderVDomToDom")
    /\ pre[container].childNodes = <<>>
    /\ Returned
    /\ LastCall.vNode \in VNodes
    /\ LastCall.vNode.kind = "object"
    /\ DOMAIN LastCall.vNode.props.own # {}
    /\ Len(LastCall.vNode.children) = 2
    /\ LastCall.vNode.children[1] # LastCall.vNode.children[2]

\* C2: two re-renders in a row of the same virtual tree leave the container
\* with the content the first one left: one top-level child, the same tags,
\* attributes, text values and child order.
RerenderIsIdempotent ==
    LET n == Len(calls) IN
    (/\ n >= 2
     /\ calls[n].fn = "reRenderElement"
     /\ calls[n - 1].fn = "reRenderElement"
     /\ calls[n].vNode = calls[n - 1].vNode
     /\ calls[n].vNode \in VNodes)
    => /\ calls[n].threw = "none"
       /\ Content(dom) = Content(pre)
       /\ Content(dom) = <<calls[n].vNode>>

\* A tree with children was re-rendered twice over a container that held a
\* child before the first re-render.
RerenderIsIdempotentWitness ==
    LET n == Len(calls) IN
    /\ n >= 3
    /\ calls[n].fn = "reRenderElement"
    /\ calls[n - 1].fn = "reRenderElement"
    /\ calls[n].vNode = calls[n - 1].vNode
    /\ calls[n].vNode \in VNodes
    /\ calls[n].vNode.kind = "object"
    /\ calls[n].vNode.children # <<>>
    /\ calls[n - 1].childrenBefore > 0
    /\ calls[n].threw = "none"

\* C3: diffAndUpdate with a null current tree returns with the container
\* empty, having done nothing but clear it, whatever the previous tree and
\* whatever the container held.
DiffWithNullClears ==
    (LastIs("diffAndUpdate") /\ LastCall.vNode = Null)
    => /\ Returned
       /\ dom[container].childNodes = <<>>
       /\ log = <<Entry("innerHTML", container, "", "")>>
       /\ Len(dom) = Len(pre)
       /\ OthersUntouched

\* A container of several children was cleared by a diff of an undefined
\* previous tree against null.
DiffWithNullClearsWitness ==
    /\ LastIs("diffAndUpdate")
    /\ LastCall.vNode = Null
    /\ LastCall.previousVNode = Undefined
    /\ LastCall.childrenBefore >= 2
    /\ dom[container].childNodes = <<>>

\* The container's one child before the last call was the text node of s.
TextMountedBefore(s) ==
    /\ Len(pre[container].childNodes) = 1
    /\ pre[Head(pre[container].childNodes)] = TextNode(s)

\* C4: diffAndUpdate of two text values, the container's one child being the
\* text node of the previous value: when the values differ the container
\* ends with one child, a text node created by the call that carries the
\* current value; when they are equal the live tree is not touched and the
\* child is the node it was.
DiffOfTexts ==
    (/\ LastIs("diffAndUpdate")
     /\ isTextNode(LastCall.previousVNode)
     /\ isTextNode(LastCall.vNode)
     /\ TextMountedBefore(LastCall.previousVNode.value))
    => /\ Returned
       /\ IF LastCall.previousVNode.value # LastCall.vNode.value
          THEN /\ Len(dom[container].childNodes) = 1
               /\ Head(dom[container].childNodes) > Len(pre)
               /\ dom[Head(dom[container].childNodes)]
                    = TextNode(LastCall.vNode.value)
               /\ OthersUntouched
          ELSE /\ dom = pre
               /\ log = <<>>

\* The mounted text "a" was replaced by a new text node "b".
DiffOfTextsWitness ==
    /\ LastIs("diffAndUpdate")
    /\ LastCall.previousVNode = JSString("a")
    /\ LastCall.vNode = JSString("b")
    /\ TextMountedBefore("a")
    /\ Content(dom) = <<JSString("b")>>

\* C5: diffAndUpdate of two element nodes of different tags, the previous one
\* mounted as the container's one child, returns and leaves the container
\* with the subtree a mount of the current tree builds, and nothing of the
\* previous subtree.
DiffOfDifferentTags ==
    (/\ LastIs("diffAndUpdate")
     /\ LastCall.previousVNode.kind = "object"
     /\ LastCall.vNode.kind = "object"
     /\ LastCall.previousVNode.type # LastCall.vNode.type
     /\ MountedBefore(LastCall.previousVNode))
    => /\ Returned
       /\ Content(dom) = <<LastCall.vNode>>

\* The element the attribute diff was applied to: the container's first child
\* before the call.
PatchedElement == Head(pre[container].childNodes)

RemovedNames ==
    {log[i].name : i \in {j \in DOMAIN log : log[j].op = "removeAttribute"}}

SetPairs ==
    {<<log[i].name, log[i].value>> :
       i \in {j \in DOMAIN log : log[j].op = "setAttribute"}}

\* The attribute diff did what the contract says for old and new.
PatchedExactly(old, new) ==
    /\ Returned
    /\ dom[PatchedElement].attributes = new
    /\ RemovedNames = DOMAIN old \ DOMAIN new
    /\ SetPairs = {<<n, new[n]>> :
                     n \in {x \in DOMAIN new : x \notin DOMAIN old \/ old[x] # new[x]}}
    /\ Len(log) = Cardinality(RemovedNames) + Cardinality(SetPairs)
    /\ \A i \in DOMAIN log : log[i].node = PatchedElement

AttributeDiffApplies ==
    /\ LastIs("updateDomAttributes")
    /\ pre[container].childNodes # <<>>
    /\ pre[PatchedElement].nodeType = "element"
    /\ pre[PatchedElement].attributes = LastCall.previousVNode.props.own

\* C6: updateDomAttributes on a live element whose attributes are oldProps,
\* for all string-valued oldProps and newProps, removes exactly the names of
\* oldProps missing from newProps, sets exactly the pairs of newProps that
\* are missing from or different in oldProps, writes nothing else, and leaves
\* the element with exactly the attributes newProps.
AttributeDiffIsExact ==
    AttributeDiffApplies
    => PatchedExactly(LastCall.previousVNode.props.own, LastCall.vNode.props.own)

\* The same, for the names of oldProps that no object literal inherits: what
\* of C6 the code does keep.
AttributeDiffOnPlainNames ==
    (AttributeDiffApplies
     /\ DOMAIN LastCall.previousVNode.props.own \cap ObjectPrototypeNames = {})
    => PatchedExactly(LastCall.previousVNode.props.own, LastCall.vNode.props.own)

RerenderNullThrowsAfterClearing ==
    (LastIs("reRenderElement") /\ LastCall.vNode = Null)
    => LastCall.threw = "TypeError" /\ dom[container].childNodes = <<>>

\* The calls of the history from i on are all mounts that returned.
MountsFrom(i) ==
    \A j \in i..Len(calls) :
        /\ calls[j].fn = "renderVDomToDom"
        /\ calls[j].threw = "none"

\* C8: a mount changes the container's child list only by appending one new
\* node at its end, every earlier child staying in place and unchanged; so k
\* mounts in a row leave the container with k children more than it had.
MountOnlyAppends ==
    /\ (LastIs("renderVDomToDom") /\ Returned)
       => /\ Len(dom[container].childNodes) = Len(pre[container].childNodes) + 1
          /\ SubSeq(dom[container].childNodes, 1, Len(pre[container].childNodes))
               = pre[container].childNodes
          /\ dom[container].childNodes[Len(dom[container].childNodes)] > Len(pre)
          /\ dom[container].attributes = pre[container].attributes
          /\ OthersUntouched
    /\ \A i \in DOMAIN calls :
         MountsFrom(i)
         => Len(dom[container].childNodes)
              = calls[i].childrenBefore + (Len(calls) - i + 1)

\* A tree was mounted into a container that already held two children.
MountOnlyAppendsWitness ==
    /\ LastIs("renderVDomToDom")
    /\ Returned
    /\ LastCall.childrenBefore = 2
    /\ Len(dom[container].childNodes) = 3
    /\ MountsFrom(1)

\* C9, as the claim states it: createVDomNode with props absent returns a
\* node whose props is the empty mapping, and the mount of that node returns
\* and builds an element without attributes.
AbsentPropsDefaultToEmpty ==
    (args # <<>> /\ args[2] = Undefined)
    => /\ vNode.props = ObjectLiteral(EmptyOwn)
       /\ LastIs("renderVDomToDom")
          => /\ Returned
             /\ dom[dom[container].childNodes[Len(dom[container].childNodes)]]
                  .attributes = EmptyOwn

\* C9, amended: createVDomNode stores props as it is given, so with props
\* absent the node's props is undefined; the mount of that node throws a
\* TypeError in the attribute diff, after creating the element and before
\* mounting a child or touching the container.
AbsentPropsStayAbsent ==
    (args # <<>> /\ args[2] = Undefined)
    => /\ vNode = [kind |-> "object", type |-> args[1], props |-> Undefined,
                   children |-> args[3]]
       /\ LastIs("renderVDomToDom")
          => /\ LastCall.threw = "TypeError"
             /\ dom = Append(pre, ElementNode(args[1]))
             /\ log = <<>>

\* A node created with props absent and with children was mounted.
AbsentPropsStayAbsentWitness ==
    /\ args # <<>>
    /\ args[2] = Undefined
    /\ args[3] # <<>>
    /\ LastIs("renderVDomToDom")
    /\ LastCall.vNode = vNode

\* C10: diffAndUpdate of two element nodes of the same tag and as many
\* children, the previous one mounted as the container's one child, returns,
\* keeps the live element as the container's child and leaves under the
\* container the tree a re-render of the current tree builds.
DiffOfSameTagUpdatesInPlace ==
    (/\ LastIs("diffAndUpdate")
     /\ LastCall.previousVNode.kind = "object"
     /\ LastCall.vNode.kind = "object"
     /\ LastCall.previousVNode.type = LastCall.vNode.type
     /\ Len(LastCall.previousVNode.children) = Len(LastCall.vNode.children)
     /\ MountedBefore(LastCall.previousVNode))
    => /\ Returned
       /\ dom[container].childNodes = pre[container].childNodes
       /\ Content(dom) = <<LastCall.vNode>>

====
